---- MODULE Spec2Model ----
(***************************************************************************)
(* Model of the conversation pipeline of the Telegram/ChatGPT relay bot:   *)
(* handlers/messages.py (handle_message, handle_new_request),              *)
(* handlers/commands.py (cmd_start), services/rate_limiter.py,             *)
(* services/chatgpt.py and database/repository.py.  Every handler is a     *)
(* process that is suspended at its awaits; the handlers of different      *)
(* updates interleave at these points.                                     *)
(*                                                                         *)
(* Texts are sequences of code points, so that str.strip() and the         *)
(* truthiness tests of the code are computed and not assumed.  Time is     *)
(* counted in whole seconds, the granularity of the Redis TTL command.     *)
(***************************************************************************)
EXTENDS Integers, Sequences, FiniteSets, TLC

VARIABLES
    config,     \* the Config object handed to every handler
    now,        \* wall clock, seconds
    redis,      \* cooldown store: key -> expiry time, for the keys that exist
    messages,   \* table "messages" in insertion order
    next_id,    \* next value of the sequence behind the primary key (PostgreSQL)
    turn,       \* one record per incoming message: position and locals of its handler
    faults,     \* number of calls of an external service that have failed so far
    probe,      \* result of the last direct call of a service operation
    reset       \* one record per conversation reset: position and locals of its handler

vars == <<config, now, redis, messages, next_id, turn, faults, probe, reset>>

----------------------------------------------------------------------------
(* Bounds of the model *)

NumUsers == 2
MaxMsgs  == 2
MaxTicks == 1
MaxFaults == 1
MaxRows == 3
MaxResets == 2
MaxHandlers == 2

Users == 1..NumUsers
Turns == 1..MaxMsgs
Resets == 1..MaxResets

----------------------------------------------------------------------------
(* Program constants *)

TtlSeconds == 180
MaxContextLimit == 20
DefaultMaxContext == 5

GatedModel    == "gpt-3.5-turbo"
FallbackModel == "gpt-4o-mini"
LimiterPrefix == "rate_limit:gpt35"

\* Optional[str] = None
Null == <<-1>>

\* "h", "Я": one text without and one with a Cyrillic letter
UserTexts == { <<104>>, <<1071>> }

\* the text of the t-th message of a run: "h", "i", ... (a different one each)
TextOf(t) == <<103 + t>>

\* message.content as the API returns it: " ok", "\xa0ok\x85", " " and
\* "\xa0" (blank), or None
ApiContents == { <<32, 111, 107>>, <<160, 111, 107, 133>>, <<32>>, <<160>> }

Min(a, b) == IF a <= b THEN a ELSE b

Reverse(s) == [i \in 1..Len(s) |-> s[Len(s) + 1 - i]]

----------------------------------------------------------------------------
(* Python helpers *)

\* bool(x) of an Optional[str]
Truthy(s) == s # Null /\ s # <<>>

\* the code points str.strip() removes: those for which str.isspace() holds
IsSpace(c) ==
    \/ c \in 9..13 \/ c \in 28..32
    \/ c \in {133, 160, 5760, 8232, 8233, 8239, 8287, 12288}
    \/ c \in 8192..8202

RECURSIVE LStrip(_)
LStrip(s) == IF s # <<>> /\ IsSpace(Head(s)) THEN LStrip(Tail(s)) ELSE s

\* str.strip()
Strip(s) == Reverse(LStrip(Reverse(LStrip(s))))

\* str.lower() on the code points the model uses
Lower(c) ==
    IF c \in 65..90 \/ c \in 1040..1071 THEN c + 32
    ELSE IF c = 1025 THEN 1105
    ELSE c

\* _detect_language
DetectLanguage(text) ==
    IF \E i \in 1..Len(text) :
          \/ Lower(text[i]) \in 1072..1103
          \/ text[i] \in {1105, 1025}
    THEN "ru" ELSE "en"

----------------------------------------------------------------------------
(* Cooldown store (Redis) and RateLimiter *)

\* RateLimiter._key
Key(user_id) == <<LimiterPrefix, "user", user_id>>

\* Redis TTL: remaining seconds, -2 when the key does not exist
RedisTtl(r, key, t) ==
    IF key \in DOMAIN r /\ r[key] > t THEN r[key] - t ELSE -2

\* Redis SETEX: (over)writes the key with a fresh time-to-live
RedisSetexStacking(r, key, ttl, t) ==
    [k \in (DOMAIN r) \cup {key} |->
        IF k = key
        THEN (IF key \in DOMAIN r /\ r[key] > t THEN r[key] + ttl ELSE t + ttl)
        ELSE r[k]]

RedisSetex(r, key, ttl, t) ==
    [k \in (DOMAIN r) \cup {key} |-> IF k = key THEN t + ttl ELSE r[k]]

\* Redis expiry: keys whose time has come no longer exist
RedisExpire(r, t) ==
    [k \in {x \in DOMAIN r : r[x] > t} |-> r[k]]

\* RateLimiter.get_limit_state: <<limited, retry_after>>
GetLimitStateNoExpiry(r, user_id, t) ==
    IF Key(user_id) \in DOMAIN r THEN <<TRUE, TtlSeconds>> ELSE <<FALSE, 0>>

GetLimitState(r, user_id, t) ==
    LET ttl == RedisTtl(r, Key(user_id), t)
    IN  IF ttl > 0 THEN <<TRUE, ttl>> ELSE <<FALSE, 0>>

\* a marker written without a time to live left
TouchNoTtl(r, user_id, t) == RedisSetex(r, Key(user_id), 0, t)

\* RateLimiter.touch: the store after the call
Touch(r, user_id, t) == RedisSetex(r, Key(user_id), TtlSeconds, t)

\* a check that also marks the user
GetLimitStateStoreMarking(r, user_id, t) == Touch(r, user_id, t)

\* RateLimiter.get_limit_state: the store after the call; its only command
\* is TTL (line 53), which reads
GetLimitStateStore(r, user_id, t) == r

----------------------------------------------------------------------------
(* History store (table "messages") and MessageRepository *)

\* Message(user_id, message_text, response_text), id and created_at store-assigned
NewRow(id, user_id, message_text, response_text, t) ==
    [id |-> id, user_id |-> user_id, message_text |-> message_text,
     response_text |-> response_text, created_at |-> t]

\* models.py 14: the id the database gives a new row.  PostgreSQL draws it
\* from a sequence, which never goes back; SQLite (INTEGER PRIMARY KEY without
\* AUTOINCREMENT) takes the largest id in the table plus one, so the id of a
\* deleted last row is given again
MaxId(rows) ==
    IF rows = <<>> THEN 0
    ELSE CHOOSE m \in {rows[i].id : i \in 1..Len(rows)} :
            \A i \in 1..Len(rows) : rows[i].id <= m

NextRowId(cfg, rows, seq) ==
    IF cfg.db_type = "sqlite" THEN MaxId(rows) + 1 ELSE seq

\* the sequence after an insert (SQLite has none)
NextSeq(cfg, seq) == IF cfg.db_type = "sqlite" THEN seq ELSE seq + 1

\* models.py 18: created_at = func.now().  PostgreSQL's now() is the start of
\* the transaction, which the session opened with its first statement (the
\* history read); SQLite's CURRENT_TIMESTAMP is the time of the INSERT, and
\* its driver opens no transaction for a SELECT
TxStart(cfg, t) == IF cfg.db_type = "postgresql" THEN t ELSE -1

CreatedAt(cfg, tx_at, t) == IF cfg.db_type = "postgresql" THEN tx_at ELSE t

\* WHERE Message.user_id == user_id, in insertion order
RowsOf(rows, user_id) == SelectSeq(rows, LAMBDA m : m.user_id = user_id)

\* ORDER BY created_at DESC: every order in which the database may return
\* the rows (rows with equal created_at come in an order the database chooses)
RECURSIVE DescOrders(_)
DescOrders(S) ==
    IF S = {} THEN {<<>>}
    ELSE UNION {{<<m>> \o o : o \in DescOrders(S \ {m})} :
                m \in {x \in S : \A y \in S : x.created_at >= y.created_at}}

OrderByCreatedAtDesc(rows) == DescOrders({rows[i] : i \in 1..Len(rows)})

\* LIMIT n
Limit(rows, n) == SubSeq(rows, 1, Min(n, Len(rows)))

\* MessageRepository.get_recent_messages: the set of results the query may give
GetRecentMessagesNoReverse(rows, user_id, limit) ==
    {Limit(o, limit) : o \in OrderByCreatedAtDesc(RowsOf(rows, user_id))}

GetRecentMessagesOldest(rows, user_id, limit) ==
    {Reverse(Limit(Reverse(o), limit)) :
        o \in OrderByCreatedAtDesc(RowsOf(rows, user_id))}

GetRecentMessages(rows, user_id, limit) ==
    {Reverse(Limit(o, limit)) : o \in OrderByCreatedAtDesc(RowsOf(rows, user_id))}

\* MessageRepository.create_message: the table after session.commit()
CreateMessage(rows, id, user_id, message_text, response_text, t) ==
    Append(rows, NewRow(id, user_id, message_text, response_text, t))

\* MessageRepository.delete_user_messages, lines 53-57: the rows the select
\* returns (by primary key); their number is the count the method returns
SelectUserMessages(rows, user_id) ==
    LET mine == RowsOf(rows, user_id)
    IN  [i \in 1..Len(mine) |-> mine[i].id]

\* lines 58-61: session.delete of each selected row, flushed as DELETE by
\* primary key and committed; a row that is already gone matches nothing
DeleteSelected(rows, ids) ==
    SelectSeq(rows, LAMBDA m : m.id \notin {ids[i] : i \in 1..Len(ids)})

----------------------------------------------------------------------------
(* ChatGPTService *)

Fragment(role, content) == [role |-> role, content |-> content]

\* ChatGPTService.format_context_messages
RECURSIVE FormatContextMessagesAll(_)
FormatContextMessagesAll(msgs) ==
    IF msgs = <<>> THEN <<>>
    ELSE <<Fragment("user", Head(msgs).message_text),
           Fragment("assistant", Head(msgs).response_text)>>
         \o FormatContextMessagesAll(Tail(msgs))

RECURSIVE FormatContextMessages(_)
FormatContextMessages(msgs) ==
    IF msgs = <<>> THEN <<>>
    ELSE LET m == Head(msgs)
         IN  (IF Truthy(m.message_text)
                 THEN <<Fragment("user", m.message_text)>> ELSE <<>>)
             \o (IF Truthy(m.response_text)
                 THEN <<Fragment("assistant", m.response_text)>> ELSE <<>>)
             \o FormatContextMessages(Tail(msgs))

\* the part of the system prompt that varies: the language it names
\* ("ru" for "русском", "up" for "языке пользователя")
SystemContent(text) ==
    IF DetectLanguage(text) = "ru" THEN <<114, 117>> ELSE <<117, 112>>

\* Optional[List[dict]]: None, or a list
NoneList == [is_none |-> TRUE, list |-> <<>>]
SomeList(l) == [is_none |-> FALSE, list |-> l]

\* handle_message, line 68: context_messages if context_messages else None
ContextArg(context_messages) ==
    IF context_messages # <<>> THEN SomeList(context_messages) ELSE NoneList

\* generate_response, lines 36-74: the message list sent to the API
BuildMessagesContextLast(user_message, context_messages) ==
    <<Fragment("system", SystemContent(user_message)),
      Fragment("user", user_message)>>
    \o (IF ~context_messages.is_none /\ context_messages.list # <<>>
        THEN context_messages.list ELSE <<>>)

BuildMessages(user_message, context_messages) ==
    <<Fragment("system", SystemContent(user_message))>>
    \o (IF ~context_messages.is_none /\ context_messages.list # <<>>
        THEN context_messages.list ELSE <<>>)
    \o <<Fragment("user", user_message)>>

\* ChatGPTService.__init__: self.model, self.fallback_model
ServiceModel(cfg) ==
    IF cfg.openai_model # "" THEN cfg.openai_model ELSE FallbackModel

\* What one call of client.chat.completions.create does: it raises, or it
\* returns a message whose content is a text or None
ApiErrors == {"APIError"}
Raised(e)   == [raised |-> TRUE, content |-> Null, error |-> e]
Returned(c) == [raised |-> FALSE, content |-> c, error |-> ""]
ApiOutcomes ==
    {Raised(e) : e \in ApiErrors} \cup {Returned(c) : c \in ApiContents \cup {Null}}

\* for model_name in {self.model, self.fallback_model}: a set is iterated in
\* an order the interpreter chooses
IterationOrders(S) ==
    {o \in UNION {[1..n -> S] : n \in {Cardinality(S)}} :
        \A i, j \in 1..Cardinality(S) : i # j => o[i] # o[j]}

\* lines 81-93: one pass of the loop body; None.strip() raises inside the try
AttemptResult(outcome) ==
    IF outcome.raised THEN [ok |-> FALSE, text |-> Null, error |-> outcome.error]
    ELSE IF outcome.content = Null
         THEN [ok |-> FALSE, text |-> Null, error |-> "AttributeError"]
         ELSE [ok |-> TRUE, text |-> Strip(outcome.content), error |-> ""]

\* line 88: self.model after an attempt with model_name; the assignment
\* follows the call and precedes content.strip(), so it is made whenever the
\* call returned, also when the attempt then fails on a content of None
ModelAfterAttempt(model, model_name, outcome) ==
    IF outcome.raised THEN model ELSE model_name

\* ChatGPTService(config) at the moment generate_response enters its loop:
\* no call made yet, last_error = None, self.model from the configuration;
\* after is the set of the calls of generate_response that had ended by then
NewCall(cfg, after) ==
    [model |-> ServiceModel(cfg), after |-> after, calls |-> <<>>, outs |-> <<>>,
     last_error |-> "", model_after |-> ServiceModel(cfg),
     done |-> FALSE, ok |-> FALSE, text |-> Null, error |-> <<"", "">>]

\* one pass of the loop with a slip: the error of the first failed attempt
\* is kept
LoopPassFirstError(order, st, outcome) ==
    LET model_name == order[Len(st.calls) + 1]
        a == AttemptResult(outcome)
        last == Len(st.calls) + 1 = Len(order)
        last_error == IF a.ok THEN st.last_error
                      ELSE IF st.last_error = "" THEN a.error ELSE st.last_error
    IN  [st EXCEPT !.calls = Append(@, model_name),
                   !.outs = Append(@, outcome),
                   !.last_error = last_error,
                   !.model_after = ModelAfterAttempt(@, model_name, outcome),
                   !.done = a.ok \/ last,
                   !.ok = a.ok,
                   !.text = a.text,
                   !.error = IF ~a.ok /\ last
                             THEN <<"ChatGPTError", last_error>> ELSE <<"", "">>]

\* lines 79-96: one pass of the loop of generate_response, from the await of
\* the call with the next model of the set (line 81) to the next await or to
\* the end of the function.  st is the call so far, outcome what the API does
\* in this call: on success self.model is assigned and the stripped content
\* returned; on an exception last_error is set and the loop goes on; after
\* the last model the function raises with last_error (line 96).
LoopPass(order, st, outcome) ==
    LET model_name == order[Len(st.calls) + 1]
        a == AttemptResult(outcome)
        last == Len(st.calls) + 1 = Len(order)
        last_error == IF a.ok THEN st.last_error ELSE a.error
    IN  [st EXCEPT !.calls = Append(@, model_name),
                   !.outs = Append(@, outcome),
                   !.last_error = last_error,
                   !.model_after = ModelAfterAttempt(@, model_name, outcome),
                   !.done = a.ok \/ last,
                   !.ok = a.ok,
                   !.text = a.text,
                   !.error = IF ~a.ok /\ last
                             THEN <<"ChatGPTError", last_error>> ELSE <<"", "">>]

\* line 79: the orders in which the loop may visit the models of a service
\* whose attributes are model and fallback_model
AttemptOrdersList(model, fallback_model) == {<<model, fallback_model>>}

AttemptOrders(model, fallback_model) == IterationOrders({model, fallback_model})

----------------------------------------------------------------------------
(* handle_message *)

\* line 25 and line 79: the gate applies to this configuration
GatedAnyModel(cfg) == cfg.free_version_gpt

Gated(cfg) == cfg.free_version_gpt /\ cfg.openai_model = GatedModel

\* The control flow of handle_message.  A handler is suspended at one of its
\* awaits; pc names the pending await and res how it ends:
\*   ask_text 20, gate 31, limit_notice 36, typing 48, read 57,
\*   generate  chatgpt.py 81 (once per model tried; retry = the attempt failed
\*             and another model is left),
\*   persist   repository.py 30 (session.commit),
\*   refresh   repository.py 31 (session.refresh; gone = the row is no longer
\*             in the table; ok_limiter = it returned and the commit is due),
\*   commit 81, reply 87, error_notice 98;
\*   done = the handler returned, crashed = an exception left the handler.
HandleMessageFlow(pc, res) ==
    CASE pc = "idle"         /\ res = "no_text"     -> "ask_text"
      [] pc = "idle"         /\ res = "gated"       -> "gate"
      [] pc = "idle"         /\ res = "ungated"     -> "typing"
      [] pc = "ask_text"     /\ res = "ok"          -> "done"
      [] pc = "gate"         /\ res = "blocked"     -> "limit_notice"
      [] pc = "gate"         /\ res = "free"        -> "typing"
      [] pc = "gate"         /\ res = "conn_error"  -> "typing"
      [] pc = "limit_notice" /\ res = "ok"          -> "done"
      [] pc = "typing"       /\ res = "ok"          -> "read"
      [] pc = "read"         /\ res = "ok"          -> "generate"
      [] pc = "read"         /\ res = "error"       -> "error_notice"
      [] pc = "generate"     /\ res = "ok"          -> "persist"
      [] pc = "generate"     /\ res = "retry"       -> "generate"
      [] pc = "generate"     /\ res = "error"       -> "error_notice"
      [] pc = "persist"      /\ res = "ok"          -> "refresh"
      [] pc = "persist"      /\ res = "error"       -> "error_notice"
      [] pc = "refresh"      /\ res = "ok_limiter"  -> "commit"
      [] pc = "refresh"      /\ res = "ok"          -> "reply"
      [] pc = "refresh"      /\ res = "gone"        -> "error_notice"
      [] pc = "refresh"      /\ res = "error"       -> "error_notice"
      [] pc = "commit"       /\ res = "ok"          -> "reply"
      [] pc = "commit"       /\ res = "conn_error"  -> "reply"
      [] pc = "commit"       /\ res = "error"       -> "error_notice"
      [] pc = "reply"        /\ res = "ok"          -> "done"
      [] pc = "reply"        /\ res = "error"       -> "error_notice"
      [] pc = "reply"        /\ res = "refused"     -> "error_notice"
      [] pc = "error_notice" /\ res = "ok"          -> "done"
      [] OTHER                                      -> "crashed"

\* variants of the control flow with one slip each
\* the commit issued before the Exchange is written
GotoCommitFirst(pc, res) ==
    IF pc = "generate" /\ res = "ok" THEN "commit"
    ELSE IF pc = "commit" /\ res \in {"ok", "conn_error"} THEN "persist"
    ELSE IF pc = "refresh" /\ res = "ok_limiter" THEN "reply"
    ELSE HandleMessageFlow(pc, res)

\* the turn persisted although the completion failed
GotoPersistOnFailure(pc, res) ==
    IF pc = "generate" /\ res = "error" THEN "persist" ELSE HandleMessageFlow(pc, res)

\* the return after the rate-limit notice missing
GotoNoReturn(pc, res) ==
    IF pc = "limit_notice" /\ res = "ok" THEN "typing" ELSE HandleMessageFlow(pc, res)

\* the reply sent before the commit
GotoReplyFirst(pc, res) ==
    IF pc = "refresh" /\ res = "ok_limiter" THEN "reply"
    ELSE IF pc = "reply" /\ res = "ok" THEN "commit"
    ELSE IF pc = "commit" /\ res \in {"ok", "conn_error"} THEN "done"
    ELSE HandleMessageFlow(pc, res)

\* the await the handler reaches next
Goto(pc, res) == HandleMessageFlow(pc, res)

\* line 24 and lines 42-45: the local variable limiter after the gate check
LimiterAfterGateKept(res) == TRUE

LimiterAfterGate(res) == res # "conn_error"

\* line 79: the commit is due
CommitDue(cfg, limiter) == limiter /\ Gated(cfg)

\* the locals of a handler (calls: the models the attempt loop has tried;
\* tx_at: the start of the session's transaction; row_id: the primary key of
\* the row create_message added), and what it has done so far: log, written
\* (the Exchanges it wrote), completed_at, started_at and committed_at (clock
\* readings), overlapped (another turn of the user was in flight at its start)
IdleTurn ==
    [pc |-> "idle", user |-> 0, text |-> Null, limiter |-> FALSE, retry_after |-> 0,
     context |-> <<>>, request |-> <<>>, calls |-> <<>>, response |-> Null,
     error |-> <<"", "">>, tx_at |-> -1, row_id |-> 0,
     completed_at |-> -1, written |-> 0, log |-> <<>>,
     started_at |-> -1, overlapped |-> FALSE, committed_at |-> -1]

\* the external call failed for a reason of its own (outage, timeout, ...)
IsFault(res) == res \in {"error", "conn_error"}

\* the handler of message t moves on: its await ended with res
Step(t, res, rec) ==
    /\ IsFault(res) => faults < MaxFaults
    /\ faults' = IF IsFault(res) THEN faults + 1 ELSE faults
    /\ turn' = [turn EXCEPT ![t] =
                [rec EXCEPT !.pc  = Goto(turn[t].pc, res),
                            !.log = Append(turn[t].log, <<turn[t].pc, res>>)]]

\* the handler of message t is between its first await and its end
InFlight(t) == turn[t].pc \notin {"idle", "done", "crashed"}

\* users are numbered in the order of their first message or reset
KnownUsers ==
    {turn[s].user : s \in {x \in Turns : turn[x].pc # "idle"}}
    \cup {reset[r].user : r \in {x \in Resets : reset[x].pc # "idle"}}

At(t, pc) == turn[t].pc = pc

\* the number of updates the dispatcher has handed to a handler so far
Handled ==
    Cardinality({t \in DOMAIN turn : turn[t].pc # "idle"})
    + Cardinality({r \in DOMAIN reset : reset[r].pc # "idle"})

\* A message of user u arrives and its handler runs to its first await
\* (lines 17-31 or 17-48)
Receive(t, u, text) ==
    /\ At(t, "idle")
    /\ Handled < MaxHandlers
    /\ \A s \in Turns : s < t => ~At(s, "idle")
    /\ \A v \in Users : v < u => v \in KnownUsers
    /\ LET rec == [turn[t] EXCEPT
                    !.user = u, !.text = text, !.started_at = now,
                    !.overlapped = \E s \in Turns \ {t} :
                                        turn[s].user = u /\ InFlight(s)]
           res == IF ~Truthy(text) THEN "no_text"
                  ELSE IF Gated(config) THEN "gated" ELSE "ungated"
       IN  Step(t, res, rec)
    /\ UNCHANGED <<config, now, redis, messages, next_id, probe, reset>>

\* line 20: message.answer("please send a text")
AskText(t, res) ==
    /\ At(t, "ask_text")
    /\ Step(t, res, turn[t])
    /\ UNCHANGED <<config, now, redis, messages, next_id, probe, reset>>

\* lines 26-45: limiter.get_limit_state returns or raises
GateCheck(t, res) ==
    /\ At(t, "gate")
    /\ LET st == GetLimitState(redis, turn[t].user, now)
       IN  /\ res \in {"blocked", "free"} => res = (IF st[1] THEN "blocked" ELSE "free")
           /\ Step(t, res, [turn[t] EXCEPT
                    !.limiter = LimiterAfterGate(res),
                    !.retry_after = IF res = "blocked" THEN st[2] ELSE 0])
    /\ redis' = IF res \in {"blocked", "free"}
                THEN GetLimitStateStore(redis, turn[t].user, now) ELSE redis
    /\ UNCHANGED <<config, now, messages, next_id, probe, reset>>

\* lines 33-41: the rate-limit notice
LimitNotice(t, res) ==
    /\ At(t, "limit_notice")
    /\ Step(t, res, turn[t])
    /\ UNCHANGED <<config, now, redis, messages, next_id, probe, reset>>

\* line 48: send_chat_action
Typing(t, res) ==
    /\ At(t, "typing")
    /\ Step(t, res, turn[t])
    /\ UNCHANGED <<config, now, redis, messages, next_id, probe, reset>>

\* lines 57-69: get_recent_messages returns, the context is formatted and the
\* request is built; or the query raises
ReadContext(t, res) ==
    /\ At(t, "read")
    /\ \/ /\ res = "ok"
          /\ \E recent \in GetRecentMessages(messages, turn[t].user,
                                              config.max_context_messages) :
                LET context_messages == FormatContextMessages(recent)
                IN  Step(t, res, [turn[t] EXCEPT
                        !.tx_at = TxStart(config, now),
                        !.context = context_messages,
                        !.request = BuildMessages(turn[t].text,
                                                  ContextArg(context_messages))])
       \/ /\ res = "error"
          /\ Step(t, res, [turn[t] EXCEPT !.error = <<"DBError", "select">>])
    /\ UNCHANGED <<config, now, redis, messages, next_id, probe, reset>>

\* chatgpt.py 79-96: one pass of the attempt loop.  The call of line 81 to
\* the next model of the iteration order o ends with outcome; the loop
\* returns the stripped content, goes on to the next model, or is over and
\* generate_response raises with the last error
GenerateAttempt(t, o, outcome) ==
    /\ At(t, "generate")
    /\ Len(turn[t].calls) < Len(o)
    /\ SubSeq(o, 1, Len(turn[t].calls)) = turn[t].calls
    /\ LET a == AttemptResult(outcome)
           calls == Append(turn[t].calls, o[Len(turn[t].calls) + 1])
           res == IF a.ok THEN "ok"
                  ELSE IF Len(calls) < Len(o) THEN "retry" ELSE "error"
       IN  Step(t, res, [turn[t] EXCEPT
                !.calls = IF res = "retry" THEN calls ELSE <<>>,
                !.response = a.text,
                !.error = IF res = "error" THEN <<"ChatGPTError", a.error>> ELSE @,
                !.completed_at = IF a.ok THEN now ELSE -1])
    /\ UNCHANGED <<config, now, redis, messages, next_id, probe, reset>>

\* repository.py 24-30: session.commit() flushes the INSERT and commits the
\* transaction, or raises
Persist(t, res) ==
    /\ At(t, "persist")
    /\ LET id == NextRowId(config, messages, next_id)
       IN  /\ Step(t, res, [turn[t] EXCEPT
                    !.error = IF res = "error" THEN <<"DBError", "commit">> ELSE @,
                    !.row_id = IF res = "ok" THEN id ELSE @,
                    !.tx_at = -1,
                    !.written = IF res = "ok" THEN @ + 1 ELSE @])
           /\ IF res = "ok"
              THEN /\ messages' = CreateMessage(messages, id, turn[t].user,
                                        turn[t].text, turn[t].response,
                                        CreatedAt(config, turn[t].tx_at, now))
                   /\ next_id' = NextSeq(config, next_id)
              ELSE UNCHANGED <<messages, next_id>>
    /\ UNCHANGED <<config, now, redis, probe, reset>>

\* the table holds a row with this primary key
RowExists(rows, id) == \E i \in 1..Len(rows) : rows[i].id = id

\* repository.py 31: session.refresh(message) selects the row by its primary
\* key; it raises InvalidRequestError when the row is gone, and may fail for a
\* reason of the database
Refresh(t, res) ==
    /\ At(t, "refresh")
    /\ res = "gone" <=> ~RowExists(messages, turn[t].row_id)
    /\ res \in {"ok", "ok_limiter"} =>
            res = (IF CommitDue(config, turn[t].limiter) THEN "ok_limiter" ELSE "ok")
    /\ Step(t, res, [turn[t] EXCEPT
            !.error = IF res = "gone" THEN <<"InvalidRequestError", "refresh">>
                      ELSE IF res = "error" THEN <<"DBError", "refresh">>
                      ELSE @,
            !.row_id = 0])
    /\ UNCHANGED <<config, now, redis, messages, next_id, probe, reset>>

\* lines 79-84: limiter.touch returns or raises
Commit(t, res) ==
    /\ At(t, "commit")
    /\ Step(t, res, [turn[t] EXCEPT
            !.error = IF res = "error" THEN <<"RedisError", "setex">> ELSE @,
            !.committed_at = IF res = "ok" THEN now ELSE @])
    /\ redis' = IF res = "ok" THEN Touch(redis, turn[t].user, now) ELSE redis
    /\ UNCHANGED <<config, now, messages, next_id, probe, reset>>

\* lines 87-90: message.answer(response); Telegram refuses an empty text
Reply(t, res) ==
    /\ At(t, "reply")
    /\ res = "refused" <=> turn[t].response = <<>>
    /\ Step(t, res, [turn[t] EXCEPT !.error =
            IF res = "ok" THEN @ ELSE <<"TelegramError", "answer">>])
    /\ UNCHANGED <<config, now, redis, messages, next_id, probe, reset>>

\* lines 92-98: message.answer(error_message)
ErrorNotice(t, res) ==
    /\ At(t, "error_notice")
    /\ Step(t, res, turn[t])
    /\ UNCHANGED <<config, now, redis, messages, next_id, probe, reset>>

----------------------------------------------------------------------------
(* Conversation reset: cmd_start (/start) and handle_new_request (button) *)

\* The control flow of the two handlers; neither has a try block, so any
\* exception leaves the handler.  pc names the pending await:
\*   select  repository.py 54, commit  repository.py 61,
\*   answer  commands.py 33 (message.answer) or messages.py 120 (edit_text),
\*   callback_answer  messages.py 124 (button only).
ResetFlow(via, pc, res) ==
    CASE pc = "idle"                                -> "select"
      [] pc = "select" /\ res = "ok"                -> "commit"
      [] pc = "commit" /\ res = "ok"                -> "answer"
      [] pc = "answer" /\ res = "ok" /\ via = "start"  -> "done"
      [] pc = "answer" /\ res = "ok" /\ via = "button" -> "callback_answer"
      [] pc = "callback_answer" /\ res = "ok"       -> "done"
      [] OTHER                                      -> "crashed"

IdleReset ==
    [pc |-> "idle", user |-> 0, via |-> "", selected |-> <<>>, count |-> -1]

ResetAt(r, pc) == reset[r].pc = pc

\* the handler of reset r moves on: its await ended with res
ResetStep(r, res, rec) ==
    /\ IsFault(res) => faults < MaxFaults
    /\ faults' = IF IsFault(res) THEN faults + 1 ELSE faults
    /\ reset' = [reset EXCEPT ![r] =
                    [rec EXCEPT !.pc = ResetFlow(rec.via, reset[r].pc, res)]]

\* /start or the button of user u arrives; the handler opens a session and
\* awaits the select (commands.py 14-19, messages.py 102-108)
ResetReceive(r, u, via) ==
    /\ ResetAt(r, "idle")
    /\ Handled < MaxHandlers
    /\ \A q \in Resets : q < r => ~ResetAt(q, "idle")
    /\ \A v \in Users : v < u => v \in KnownUsers
    /\ ResetStep(r, "ok", [reset[r] EXCEPT !.user = u, !.via = via])
    /\ UNCHANGED <<config, now, redis, messages, next_id, turn, probe>>

\* repository.py 53-57: the select returns the rows of the user
ResetSelect(r, res) ==
    /\ ResetAt(r, "select")
    /\ ResetStep(r, res, [reset[r] EXCEPT !.selected =
            IF res = "ok" THEN SelectUserMessages(messages, reset[r].user) ELSE @])
    /\ UNCHANGED <<config, now, redis, messages, next_id, turn, probe>>

\* a reset that also lifts the block of its user
ResetStoreLifting(r, user_id) ==
    [k \in (DOMAIN r) \ {Key(user_id)} |-> r[k]]

\* commands.py 16-19, messages.py 104-108: the cooldown store after the reset
\* of a user; the handlers build no RateLimiter and issue no Redis command
ResetStore(r, user_id) == r

\* repository.py 58-62: the deletes are committed and the count is returned
ResetCommit(r, res) ==
    /\ ResetAt(r, "commit")
    /\ ResetStep(r, res, [reset[r] EXCEPT !.count =
            IF res = "ok" THEN Len(reset[r].selected) ELSE @])
    /\ messages' = IF res = "ok" THEN DeleteSelected(messages, reset[r].selected)
                   ELSE messages
    /\ redis' = IF res = "ok" THEN ResetStore(redis, reset[r].user) ELSE redis
    /\ UNCHANGED <<config, now, next_id, turn, probe>>

\* commands.py 30-36, messages.py 110-123: the confirmation names the count
\* when it is positive
ResetAnswer(r, res) ==
    /\ ResetAt(r, "answer")
    /\ ResetStep(r, res, reset[r])
    /\ UNCHANGED <<config, now, redis, messages, next_id, turn, probe>>

\* messages.py 124: callback.answer
ResetCallbackAnswer(r, res) ==
    /\ ResetAt(r, "callback_answer")
    /\ ResetStep(r, res, reset[r])
    /\ UNCHANGED <<config, now, redis, messages, next_id, turn, probe>>

\* time passes; the store drops the keys that expire
TickSteps == {TtlSeconds}

Tick(d, horizon) ==
    /\ now + d <= horizon
    /\ now' = now + d
    /\ redis' = RedisExpire(redis, now')
    /\ UNCHANGED <<config, messages, next_id, turn, faults, probe, reset>>

----------------------------------------------------------------------------
(* The running bot *)

DbTypes == {"postgresql", "sqlite"}

Configs ==
    [free_version_gpt : BOOLEAN,
     openai_model : {GatedModel, FallbackModel},
     max_context_messages : {1},
     db_type : DbTypes]

NoProbe == [op |-> "none"]

Init ==
    /\ config \in Configs
    /\ now = 0
    /\ redis = [k \in {} |-> 0]
    /\ messages = <<>>
    /\ next_id = 1
    /\ turn = [t \in Turns |-> IdleTurn]
    /\ faults = 0
    /\ reset = [r \in Resets |-> IdleReset]
    /\ probe = NoProbe

\* the steps of the message handlers
HandlerSteps ==
    \/ \E t \in Turns, u \in Users : \E text \in {TextOf(t), Null} : Receive(t, u, text)
    \/ \E t \in Turns, res \in {"ok", "error"} : AskText(t, res)
    \/ \E t \in Turns, res \in {"blocked", "free", "conn_error", "error"} : GateCheck(t, res)
    \/ \E t \in Turns, res \in {"ok", "error"} : LimitNotice(t, res)
    \/ \E t \in Turns, res \in {"ok", "error"} : Typing(t, res)
    \/ \E t \in Turns, res \in {"ok", "error"} : ReadContext(t, res)
    \/ \E t \in Turns, outcome \in ApiOutcomes :
          \E o \in AttemptOrders(ServiceModel(config), FallbackModel) :
             GenerateAttempt(t, o, outcome)
    \/ \E t \in Turns, res \in {"ok", "error"} : Persist(t, res)
    \/ \E t \in Turns, res \in {"ok", "ok_limiter", "gone", "error"} : Refresh(t, res)
    \/ \E t \in Turns, res \in {"ok", "conn_error", "error"} : Commit(t, res)
    \/ \E t \in Turns, res \in {"ok", "error", "refused"} : Reply(t, res)
    \/ \E t \in Turns, res \in {"ok", "error"} : ErrorNotice(t, res)

\* the steps of the reset handlers
ResetSteps ==
    \/ \E r \in Resets, u \in Users, via \in {"start", "button"} : ResetReceive(r, u, via)
    \/ \E r \in Resets, res \in {"ok", "error"} : ResetSelect(r, res)
    \/ \E r \in Resets, res \in {"ok", "error"} : ResetCommit(r, res)
    \/ \E r \in Resets, res \in {"ok", "error"} : ResetAnswer(r, res)
    \/ \E r \in Resets, res \in {"ok", "error"} : ResetCallbackAnswer(r, res)

\* main.py 56-62: the dispatcher runs the handlers of the three routers
\* concurrently (messages, /start, the new-request button) while time passes
Next ==
    \/ HandlerSteps
    \/ ResetSteps
    \/ \E d \in TickSteps : Tick(d, MaxTicks * TtlSeconds)

Spec == Init /\ [][Next]_vars

----------------------------------------------------------------------------
(* The context assembler and the request builder on their own: a table of *)
(* Exchanges is given, and the steps of handle_message that read it       *)
(* (lines 57-69) and build the request (chatgpt.py 36-74) are applied.    *)

RowResponses == {Null, <<>>, <<111, 107>>}

\* the user whose context is assembled, and another user
CtxUsers == {1, 2}
ContextLimits == {0, 1, 2, DefaultMaxContext, MaxContextLimit}

\* created_at of row i: the clock read at its insertion; tie[j] says that row j
\* was inserted at the same clock reading as row j - 1
Stamp(tie, i) == Cardinality({j \in 2..i : ~tie[j]})

\* a table create_message can have built: ids and created_at grow with the
\* insertion order, every request text is present
Table(n, us, rs, tie) ==
    [i \in 1..n |-> NewRow(i, us[i], TextOf(i), rs[i], Stamp(tie, i))]

InitCtx ==
    /\ config \in [free_version_gpt : {FALSE},
                    openai_model : {FallbackModel},
                    max_context_messages : ContextLimits,
                    db_type : {"postgresql"}]
    /\ \E n \in 0..MaxRows :
          \E us \in [1..n -> CtxUsers], rs \in [1..n -> RowResponses],
             tie \in [2..n -> BOOLEAN] :
                messages = Table(n, us, rs, tie)
    /\ next_id = Len(messages) + 1
    /\ now = Len(messages)
    /\ redis = [k \in {} |-> 0]
    /\ turn = [t \in Turns |-> IdleTurn]
    /\ faults = 0
    /\ reset = [r \in Resets |-> IdleReset]
    /\ probe = NoProbe

\* lines 57-69 of handle_message for a message text of user u, up to the
\* request that generate_response builds; applied once to the given table
AssembleContext(u, text) ==
    /\ probe = NoProbe
    /\ \E recent \in GetRecentMessages(messages, u, config.max_context_messages) :
          LET context_messages == FormatContextMessages(recent)
          IN  probe' = [op |-> "context", user |-> u, text |-> text,
                        recent |-> recent,
                        context |-> context_messages,
                        request |-> BuildMessages(text, ContextArg(context_messages))]
    /\ UNCHANGED <<config, now, redis, messages, next_id, turn, faults, reset>>

NextCtx == \E u \in CtxUsers, text \in UserTexts : AssembleContext(u, text)

SpecCtx == InitCtx /\ [][NextCtx]_vars

----------------------------------------------------------------------------
(* The RateLimiter on its own: touch and get_limit_state are called        *)
(* directly while time passes.                                             *)

NeverCommitted == [u \in Users |-> -1]

InitRL ==
    /\ config = [free_version_gpt |-> TRUE, openai_model |-> GatedModel,
                 max_context_messages |-> DefaultMaxContext,
                 db_type |-> "postgresql"]
    /\ now = 0
    /\ redis = [k \in {} |-> 0]
    /\ messages = <<>>
    /\ next_id = 1
    /\ turn = [t \in Turns |-> IdleTurn]
    /\ faults = 0
    /\ reset = [r \in Resets |-> IdleReset]
    /\ probe = [op |-> "none", user |-> 0, at |-> 0, limited |-> FALSE,
                retry_after |-> 0, committed |-> NeverCommitted]

\* await limiter.get_limit_state(u): probe keeps what it returned and when
CallGetLimitState(u) ==
    /\ LET st == GetLimitState(redis, u, now)
       IN  probe' = [probe EXCEPT !.op = "check", !.user = u, !.at = now,
                                  !.limited = st[1], !.retry_after = st[2]]
    /\ redis' = GetLimitStateStore(redis, u, now)
    /\ UNCHANGED <<config, now, messages, next_id, turn, faults, reset>>

\* await limiter.touch(u): probe keeps the state of the marker just before
\* the call, and the time of the last touch of each user
CallTouch(u) ==
    /\ redis' = Touch(redis, u, now)
    /\ LET st == GetLimitState(redis, u, now)
       IN  probe' = [probe EXCEPT !.op = "touch", !.user = u, !.at = now,
                                  !.limited = st[1], !.retry_after = st[2],
                                  !.committed[u] = now]
    /\ UNCHANGED <<config, now, messages, next_id, turn, faults, reset>>

\* the clock readings at which the limiter is called: thirds of the cooldown,
\* and one second later
RLTickSteps == {TtlSeconds \div 3, TtlSeconds \div 3 + 1}
RLHorizon == TtlSeconds + TtlSeconds \div 3 + MaxTicks

NextRL ==
    \/ \E u \in Users : CallGetLimitState(u)
    \/ \E u \in Users : CallTouch(u)
    \/ \E d \in RLTickSteps : Tick(d, RLHorizon)

SpecRL == InitRL /\ [][NextRL]_vars

----------------------------------------------------------------------------
(* The History Store under resets: a table of Exchanges is given, reset    *)
(* handlers run, and message handlers add Exchanges meanwhile.             *)

\* probe counts the Exchanges created so far and names the user of the last
\* handler that created one
InitStore ==
    /\ config \in [free_version_gpt : {FALSE}, openai_model : {FallbackModel},
                    max_context_messages : {DefaultMaxContext},
                    db_type : DbTypes]
    /\ \E n \in 0..MaxRows :
          \E us \in [1..n -> Users] :
                messages = Table(n, us, [i \in 1..n |-> <<111, 107>>],
                                 [i \in 2..n |-> FALSE])
    /\ next_id = Len(messages) + 1
    /\ now = Len(messages)
    /\ redis = [k \in {} |-> 0]
    /\ turn = [t \in Turns |-> IdleTurn]
    /\ faults = 0
    /\ reset = [r \in Resets |-> IdleReset]
    /\ probe = [op |-> "none", user |-> 0, created |-> Len(messages)]

\* repository.py 24-30, run by the handler of some message of user u: the
\* session.commit() of create_message adds one more Exchange.  (The refresh
\* of line 31 that follows only reads the table.)
StoreInsert(u) ==
    /\ probe.created <= MaxRows
    /\ messages' = CreateMessage(messages, NextRowId(config, messages, next_id),
                                 u, TextOf(probe.created + 1), <<111, 107>>, now)
    /\ next_id' = NextSeq(config, next_id)
    /\ probe' = [op |-> "insert", user |-> u, created |-> probe.created + 1]
    /\ UNCHANGED <<config, now, redis, turn, faults, reset>>

NextStore == ResetSteps \/ \E u \in Users : StoreInsert(u)

SpecStore == InitStore /\ [][NextStore]_vars

----------------------------------------------------------------------------
(* The cooldown markers under resets: the limiter is called directly, time *)
(* passes, and reset handlers run on a table with one Exchange per user.   *)

InitCooldown ==
    /\ config = [free_version_gpt |-> TRUE, openai_model |-> GatedModel,
                 max_context_messages |-> DefaultMaxContext,
                 db_type |-> "postgresql"]
    /\ now = 0
    /\ redis = [k \in {} |-> 0]
    /\ messages = Table(NumUsers, [i \in 1..NumUsers |-> i],
                        [i \in 1..NumUsers |-> <<111, 107>>],
                        [i \in 2..NumUsers |-> TRUE])
    /\ next_id = Len(messages) + 1
    /\ turn = [t \in Turns |-> IdleTurn]
    /\ faults = 0
    /\ reset = [r \in Resets |-> IdleReset]
    /\ probe = [op |-> "none", user |-> 0, at |-> 0, limited |-> FALSE,
                retry_after |-> 0, committed |-> NeverCommitted]

\* the clock advances by half a cooldown, up to a whole one and beyond
CooldownTickSteps == {TtlSeconds \div 2}
CooldownHorizon == (MaxTicks + 1) * (TtlSeconds \div 2)

NextCooldown ==
    \/ \E u \in Users : CallGetLimitState(u)
    \/ \E u \in Users : CallTouch(u)
    \/ \E d \in CooldownTickSteps : Tick(d, CooldownHorizon)
    \/ ResetSteps

SpecCooldown == InitCooldown /\ [][NextCooldown]_vars

----------------------------------------------------------------------------
(* The ChatGPTService on its own: for each message handle_message builds a *)
(* service from the configuration (line 52) and calls generate_response    *)
(* once (lines 66-69).  The calls of different handlers are suspended at   *)
(* each await of the API (chatgpt.py:81) and interleave there.             *)
(* probe.history keeps one entry per call of generate_response, in the     *)
(* order in which the calls began.                                         *)

\* OPENAI_MODEL as configured: the gated model, the fallback model, or empty
GenModels == {GatedModel, FallbackModel, ""}

\* The order in which a set of strings is iterated depends on the hashes of
\* the strings, which are fixed when the interpreter starts: the process
\* draws one order and every iteration of the same set follows it.
InitGen ==
    /\ config \in [free_version_gpt : {FALSE},
                    openai_model : GenModels,
                    max_context_messages : {DefaultMaxContext},
                    db_type : {"postgresql"}]
    /\ now = 0
    /\ redis = [k \in {} |-> 0]
    /\ messages = <<>>
    /\ next_id = 1
    /\ turn = [t \in Turns |-> IdleTurn]
    /\ faults = 0
    /\ reset = [r \in Resets |-> IdleReset]
    /\ \E o \in AttemptOrders(ServiceModel(config), FallbackModel) :
          probe = [op |-> "generate", hash_order |-> o, history |-> <<>>]

\* the calls of generate_response that have returned or raised
Finished(history) == {i \in 1..Len(history) : history[i].done}

\* lines 52 and 66-69: ChatGPTService(config), then generate_response up to
\* its first await.  The entry keeps the calls that had ended when this one
\* began.
ServiceStart ==
    /\ Len(probe.history) < MaxMsgs
    /\ probe' = [probe EXCEPT !.history =
                    Append(@, NewCall(config, Finished(probe.history)))]
    /\ UNCHANGED <<config, now, redis, messages, next_id, turn, faults, reset>>

\* chatgpt.py:81: the API answers the pending call of entry i with outcome,
\* and generate_response runs to its next await or to its end
ServiceAttempt(i, outcome) ==
    /\ i \in 1..Len(probe.history)
    /\ ~probe.history[i].done
    /\ probe' = [probe EXCEPT !.history[i] =
                    LoopPass(probe.hash_order, @, outcome)]
    /\ UNCHANGED <<config, now, redis, messages, next_id, turn, faults, reset>>

NextGen ==
    \/ ServiceStart
    \/ \E i \in 1..MaxMsgs, outcome \in ApiOutcomes : ServiceAttempt(i, outcome)

SpecGen == InitGen /\ [][NextGen]_vars

----------------------------------------------------------------------------
(* Properties of the handling of a message *)

Started == {t \in Turns : turn[t].pc # "idle"}

Events(t) == {turn[t].log[i] : i \in 1..Len(turn[t].log)}
Awaited(t) == {turn[t].log[i][1] : i \in 1..Len(turn[t].log)}

\* positions in the log of turn t of the awaits in P that ended with a result in R
Positions(t, P, R) ==
    {i \in 1..Len(turn[t].log) : turn[t].log[i][1] \in P /\ turn[t].log[i][2] \in R}

AnyResult ==
    {"ok", "ok_limiter", "retry", "gone", "error", "conn_error", "free", "blocked",
     "refused", "gated", "ungated", "no_text"}

\* create_message returned: the refresh found the row
RefreshOk == {"ok", "ok_limiter"}

\* the table holds a row written for the message of turn t
RowsWrittenBy(t) ==
    {i \in 1..Len(messages) : messages[i].message_text = turn[t].text}

\* C1: the cooldown marker of a user is created or refreshed only by a commit
\* that its turn reaches after its completion succeeded and its Exchange was
\* written: every commit in a turn's log comes after a successful generate and
\* a successful write (session.commit, then refresh) of that turn, the turn
\* has written its Exchange, neither its completion nor its write failed, and
\* a marker in the store belongs to a user with such a turn.
C1_TouchOnlyAfterSuccess ==
    /\ \A t \in Started :
          (turn[t].pc = "commit" \/ "commit" \in Awaited(t)) =>
              /\ \E j \in Positions(t, {"generate"}, {"ok"}) :
                 \E k \in Positions(t, {"persist"}, {"ok"}) :
                 \E l \in Positions(t, {"refresh"}, RefreshOk) :
                    /\ j < k /\ k < l
                    /\ \A i \in Positions(t, {"commit"}, AnyResult) : l < i
              /\ Positions(t, {"generate", "persist", "refresh"}, {"error", "gone"}) = {}
              /\ turn[t].written = 1
              /\ turn[t].response # Null
    /\ \A u \in Users :
          Key(u) \in DOMAIN redis =>
              \E t \in Started : turn[t].user = u /\ <<"commit", "ok">> \in Events(t)

C1_Witness ==
    \E t \in Started :
        /\ <<"commit", "ok">> \in Events(t)
        /\ Key(turn[t].user) \in DOMAIN redis
        /\ turn[t].pc = "done"

\* the cooldown store answered every call turn t made to it
StoreReachable(t) ==
    Positions(t, {"gate", "commit"}, {"conn_error", "error"}) = {}

\* C2: with gating active and the store reachable, two messages of one user
\* never both obtain a successful completion less than 180 seconds apart
C2_OnePerWindow ==
    Gated(config) =>
        \A s, t \in Started :
            (/\ s # t
             /\ turn[s].user = turn[t].user
             /\ StoreReachable(s) /\ StoreReachable(t)
             /\ turn[s].completed_at >= 0
             /\ turn[t].completed_at >= turn[s].completed_at)
            => turn[t].completed_at - turn[s].completed_at >= TtlSeconds

\* C3: a turn whose completion call failed on every model writes no Exchange,
\* issues no commit, and is sent the error notice carrying the completion
\* error: the only await that follows the failed generate is the error notice.
C3_FailedCompletion ==
    \A t \in Started :
        <<"generate", "error">> \in Events(t) =>
            /\ Awaited(t) \cap {"persist", "refresh", "commit", "reply"} = {}
            /\ RowsWrittenBy(t) = {} /\ turn[t].written = 0
            /\ turn[t].response = Null
            /\ turn[t].error[1] = "ChatGPTError"
            /\ \/ turn[t].pc = "error_notice"
               \/ /\ "error_notice" \in Awaited(t)
                  /\ turn[t].pc \in {"done", "crashed"}
                  /\ turn[t].pc = "done" <=> <<"error_notice", "ok">> \in Events(t)

C3_Witness ==
    \E t \in Started :
        /\ <<"generate", "error">> \in Events(t)
        /\ <<"error_notice", "ok">> \in Events(t)
        /\ turn[t].pc = "done"
        /\ Gated(config)

\* C4 (state part): a turn whose gate check reported blocked awaits nothing
\* but the rate-limit notice: no history read, no completion call, no
\* Exchange written, no commit; it ends when the notice is sent.
C4_BlockedState ==
    \A t \in Started :
        <<"gate", "blocked">> \in Events(t) =>
            /\ Gated(config)
            /\ Awaited(t) \subseteq {"idle", "gate", "limit_notice"}
            /\ turn[t].pc \in {"limit_notice", "done", "crashed"}
            /\ turn[t].pc = "done" <=> <<"limit_notice", "ok">> \in Events(t)
            /\ turn[t].retry_after > 0
            /\ turn[t].request = <<>> /\ turn[t].response = Null
            /\ RowsWrittenBy(t) = {}

\* C4 (step part): the steps of a blocked turn (the check that reports
\* blocked, and the notice) leave the cooldown store as it is
C4_BlockedStep ==
    \A t \in Turns :
        (/\ turn[t].pc \in {"gate", "limit_notice"}
         /\ turn'[t].pc # turn[t].pc
         /\ <<"gate", "blocked">> \in {turn'[t].log[i] : i \in 1..Len(turn'[t].log)})
        => redis' = redis

\* C4: a blocked turn sends the rate-limit notice and stops, and does not
\* change the remaining time-to-live of the marker
C4_BlockedStops == []C4_BlockedState /\ [][C4_BlockedStep]_vars

C4_Witness ==
    \E t \in Started :
        /\ <<"gate", "blocked">> \in Events(t)
        /\ turn[t].pc = "done"
        /\ turn[t].retry_after = TtlSeconds
        /\ RedisTtl(redis, Key(turn[t].user), now) = TtlSeconds

\* C5: a turn whose gate check met an unreachable store goes on as unblocked
\* (typing, history read, completion), holds no limiter, issues no commit and
\* no rate-limit notice, and no error it reports is the store's
C5_FailOpen ==
    \A t \in Started :
        <<"gate", "conn_error">> \in Events(t) =>
            /\ turn[t].limiter = FALSE
            /\ Awaited(t) \cap {"commit", "limit_notice"} = {}
            /\ turn[t].pc \notin {"commit", "limit_notice"}
            /\ turn[t].error[1] # "RedisError"
            /\ IF Len(turn[t].log) = 2 THEN turn[t].pc = "typing"
               ELSE turn[t].log[3][1] = "typing"
            /\ <<"typing", "ok">> \in Events(t) =>
                  IF Len(turn[t].log) = 3 THEN turn[t].pc = "read"
                  ELSE turn[t].log[4][1] = "read"
            /\ <<"read", "ok">> \in Events(t) =>
                  IF Len(turn[t].log) = 4 THEN turn[t].pc = "generate"
                  ELSE turn[t].log[5][1] = "generate"
            /\ <<"refresh", "ok_limiter">> \notin Events(t)

C5_Witness ==
    \E t \in Started :
        /\ <<"gate", "conn_error">> \in Events(t)
        /\ <<"persist", "ok">> \in Events(t)
        /\ <<"refresh", "ok">> \in Events(t)
        /\ <<"reply", "ok">> \in Events(t)
        /\ turn[t].pc = "done"

\* C6: unless the free-tier flag is set and the model is gpt-3.5-turbo, no
\* turn checks or commits the cooldown store, the store stays empty and no
\* turn sends a rate-limit notice
C6_UngatedBypass ==
    ~(config.free_version_gpt /\ config.openai_model = "gpt-3.5-turbo") =>
        /\ \A t \in Started :
              /\ Awaited(t) \cap {"gate", "commit", "limit_notice"} = {}
              /\ turn[t].pc \notin {"gate", "commit", "limit_notice"}
        /\ DOMAIN redis = {}

C6_Witness ==
    /\ config.free_version_gpt
    /\ config.openai_model # "gpt-3.5-turbo"
    /\ \E s, t \in Started :
          /\ s # t /\ turn[s].user = turn[t].user
          /\ turn[s].pc = "done" /\ turn[t].pc = "done"
          /\ <<"reply", "ok">> \in Events(s) /\ <<"reply", "ok">> \in Events(t)

\* the results with which an await fails
Failures == {"error", "conn_error", "gone", "refused"}

\* what the handler of turn t did after the i-th event of its log
After(t, i) == IF i < Len(turn[t].log) THEN turn[t].log[i + 1][1] ELSE turn[t].pc

\* C15: a failure of the gate check, the history read, the completion call,
\* the history write, the gate commit or the delivery of the reply does not
\* leave the handler: the handler swallows it or goes on to the error notice
C15_NoEscape ==
    \A t \in Started :
        \A i \in Positions(t, {"gate", "read", "generate", "persist", "refresh",
                               "commit", "reply"}, Failures) :
            /\ After(t, i) # "crashed"
            /\ \/ After(t, i) = "error_notice"
               \/ turn[t].log[i] \in {<<"gate", "conn_error">>, <<"commit", "conn_error">>}

\* C16: after a failure of the cooldown store during the commit the handler
\* goes on to the reply, the user is sent the reply and no error notice
C16_CommitFailureSwallowed ==
    \A t \in Started :
        \A i \in Positions(t, {"commit"}, Failures) :
            /\ <<"refresh", "ok_limiter">> \in Events(t)
            /\ After(t, i) = "reply"
            /\ "error_notice" \notin Awaited(t) /\ turn[t].pc # "error_notice"
            /\ turn[t].pc = "done" => <<"reply", "ok">> \in Events(t)

\* C17 as claimed: when the commit is issued the reply has been delivered
C17_ReplyBeforeCommit ==
    \A t \in Started :
        (turn[t].pc = "commit" \/ "commit" \in Awaited(t)) =>
            \E j \in Positions(t, {"reply"}, {"ok"}) :
                \A i \in Positions(t, {"commit"}, AnyResult) : j < i

\* C17 as amended: when the commit is issued the completion has been
\* generated and its Exchange written, and the reply has not been sent;
\* the reply is sent only after the commit has returned or its connection
\* error has been swallowed
C17_CommitBeforeReply ==
    \A t \in Started :
        /\ turn[t].pc = "commit" =>
              /\ "reply" \notin Awaited(t)
              /\ <<"generate", "ok">> \in Events(t)
              /\ <<"persist", "ok">> \in Events(t)
              /\ <<"refresh", "ok_limiter">> \in Events(t)
        /\ "commit" \in Awaited(t) =>
              /\ \A i \in Positions(t, {"commit"}, AnyResult) :
                 \A j \in Positions(t, {"reply"}, AnyResult) : i < j
              /\ (turn[t].pc = "reply" \/ "reply" \in Awaited(t)) =>
                    Positions(t, {"commit"}, {"ok", "conn_error"}) # {}

\* the commit was made, then the reply was delivered
C17_Witness ==
    \E t \in Started :
        /\ turn[t].pc = "done"
        /\ \E i \in Positions(t, {"commit"}, {"ok"}) :
           \E j \in Positions(t, {"reply"}, {"ok"}) : i < j

\* the handler of turn t is over: it returned, or an exception left it
Ended(t) == turn[t].pc \in {"done", "crashed"}

\* the messages the user was sent in turn t: the sends that succeeded
Delivered(t) ==
    Positions(t, {"reply", "limit_notice", "error_notice"}, {"ok"})

\* C24: the handler of a text message, once over, has sent the user exactly
\* one of the reply, the rate-limit notice and the error notice
C24_EndedSentOne ==
    \A t \in Started :
        (turn[t].text # Null /\ Ended(t)) => Cardinality(Delivered(t)) = 1

\* C26: a turn that has ended by sending the error notice has written no
\* Exchange and has not created or refreshed the marker of its user
C26_ErrorNoticeClean ==
    \A t \in Started :
        (turn[t].pc = "done" /\ <<"error_notice", "ok">> \in Events(t)) =>
            /\ turn[t].written = 0
            /\ RowsWrittenBy(t) = {}
            /\ <<"commit", "ok">> \notin Events(t)

\* the turns of the user of turn t
TurnsOfUser(t) == {s \in Started : turn[s].user = turn[t].user}

\* the turns of the user of t do not overlap: each started when no other
\* was in flight
Sequential(t) == \A s \in TurnsOfUser(t) : ~turn[s].overlapped

\* the cooldown store answered every call of the turns of the user of t
ReachableThroughout(t) == \A s \in TurnsOfUser(t) : StoreReachable(s)

\* the times of the commits of the turns of the user that came before turn t
PriorCommits(t) ==
    {turn[s].committed_at :
        s \in {x \in TurnsOfUser(t) : x < t /\ turn[x].committed_at >= 0}}

\* C25 as claimed: with gating active, the store reachable and the turns of
\* the user not overlapping, a turn that starts less than 180 seconds after
\* the commit of the user's last successful turn is blocked, and a turn that
\* starts when no commit of the user is less than 180 seconds old is not
C25_SequentialTurns ==
    (config.free_version_gpt /\ config.openai_model = "gpt-3.5-turbo") =>
        \A t \in Started :
            (/\ Positions(t, {"gate"}, {"blocked", "free"}) # {}
             /\ Sequential(t) /\ ReachableThroughout(t))
            => /\ (\E c \in PriorCommits(t) : turn[t].started_at - c < 180)
                    => <<"gate", "blocked">> \in Events(t)
               /\ (\A c \in PriorCommits(t) : turn[t].started_at - c >= 180)
                    => <<"gate", "free">> \in Events(t)

\* the step in which the gate check of turn t is answered: with the turns of
\* the user not overlapping, the answer is blocked when a commit of the user
\* is less than 180 seconds old at that moment, and free when no commit of
\* the user was less than 180 seconds old when the turn started
C25_GateStep ==
    (config.free_version_gpt /\ config.openai_model = "gpt-3.5-turbo") =>
        \A t \in Turns :
            (/\ turn[t].pc = "gate" /\ turn'[t].pc # "gate"
             /\ turn'[t].log[Len(turn'[t].log)][2] \in {"blocked", "free"}
             /\ Sequential(t) /\ ReachableThroughout(t))
            => /\ (\E c \in PriorCommits(t) : now - c < 180)
                    => turn'[t].pc = "limit_notice"
               /\ (\A c \in PriorCommits(t) : turn[t].started_at - c >= 180)
                    => turn'[t].pc = "typing"

\* C25 as amended: the cooldown is measured at the moment the gate check is
\* answered, not at the start of the turn
C25_SequentialTurnsAtCheck == [][C25_GateStep]_vars

\* the second turn of a user started after the first had committed and
\* ended, within the cooldown, and was blocked with 180 seconds to wait
C25_Witness ==
    \E s, t \in Started :
        /\ s < t /\ turn[s].user = turn[t].user
        /\ ~turn[s].overlapped /\ ~turn[t].overlapped
        /\ turn[s].committed_at = 0
        /\ turn[t].started_at = 0
        /\ <<"gate", "blocked">> \in Events(t)
        /\ turn[t].retry_after = TtlSeconds
        /\ turn[t].pc = "done"

----------------------------------------------------------------------------
(* Properties of the context assembler and of the request (SpecCtx) *)

Assembled == probe.op = "context"

\* the rows of the table that belong to the user of the last call
Mine == RowsOf(messages, probe.user)

Range(q) == {q[i] : i \in 1..Len(q)}

\* the text fields of the selected Exchanges that are present, as
\* <<position of the Exchange, 1 for the request and 2 for the response>>
Slots ==
    {sl \in (1..Len(probe.recent)) \X {1, 2} :
        LET m == probe.recent[sl[1]]
            f == IF sl[2] = 1 THEN m.message_text ELSE m.response_text
        IN  f # Null /\ f # <<>>}

SlotBefore(a, b) == a[1] < b[1] \/ (a[1] = b[1] /\ a[2] <= b[2])

\* the place of a present field among the present fields, oldest Exchange
\* first and request before response
SlotRank(sl) == Cardinality({x \in Slots : SlotBefore(x, sl)})

\* C7: for a bound N and a history of L Exchanges of the user, the assembler
\* selects min(N, L) Exchanges of that user, none twice, none older than one
\* it leaves out, oldest first; the fragments are, Exchange by Exchange, the
\* user fragment then the assistant fragment, one for each text field that is
\* present and none for a field that is absent
C7_ContextAssembler ==
    Assembled =>
        LET N == config.max_context_messages
            L == Len(Mine)
            r == probe.recent
            c == probe.context
        IN  /\ N \in 0..20
            /\ Len(r) <= Min(N, L)
            /\ Len(r) = Min(N, L)
            /\ Range(r) \subseteq Range(Mine)
            /\ \A i, j \in 1..Len(r) : i # j => r[i].id # r[j].id
            /\ \A i, j \in 1..Len(r) : i < j => r[i].created_at <= r[j].created_at
            /\ \A m \in Range(Mine) \ Range(r) :
                  \A i \in 1..Len(r) : m.created_at <= r[i].created_at
            /\ Len(c) = Cardinality(Slots)
            /\ \A sl \in Slots :
                  c[SlotRank(sl)] =
                      IF sl[2] = 1
                      THEN [role |-> "user", content |-> r[sl[1]].message_text]
                      ELSE [role |-> "assistant", content |-> r[sl[1]].response_text]

\* the bound cuts the history, the selected Exchanges are not all complete,
\* and two of the user's Exchanges carry the same timestamp
C7_Witness ==
    /\ Assembled
    /\ config.max_context_messages = 2
    /\ Len(Mine) = 3
    /\ Len(probe.recent) = 2
    /\ Len(probe.context) = 3
    /\ probe.recent[1].id > probe.recent[2].id

\* C8: the request is one system fragment, then the context fragments as
\* assembled, then one user fragment with the new text; a user without
\* Exchanges gets an empty context and the request system, user
C8_RequestShape ==
    Assembled =>
        LET q == probe.request
            c == probe.context
        IN  /\ Len(q) = Len(c) + 2
            /\ q[1].role = "system"
            /\ q[1].content =
                  (IF \E i \in 1..Len(probe.text) :
                         \/ probe.text[i] \in 1040..1103
                         \/ probe.text[i] \in {1025, 1105}
                   THEN <<114, 117>> ELSE <<117, 112>>)
            /\ \A i \in 1..Len(c) : q[i + 1] = c[i]
            /\ q[Len(q)] = [role |-> "user", content |-> probe.text]
            /\ \A i \in 2..Len(q) : q[i].role # "system"
            /\ Mine = <<>> =>
                  /\ c = <<>>
                  /\ q = <<q[1], [role |-> "user", content |-> probe.text]>>

C8_Witness ==
    /\ Assembled
    /\ Len(probe.context) = 4
    /\ Len(probe.request) = 6
    /\ probe.text = <<1071>>
    /\ probe.request[2].content = <<105>>

C8_WitnessFresh ==
    /\ Assembled
    /\ Mine = <<>>
    /\ messages # <<>>
    /\ Len(probe.request) = 2

----------------------------------------------------------------------------
(* Properties of the RateLimiter (SpecRL) *)

\* seconds since the last touch of user u (no touch yet: -1)
SinceCommit(u, t) ==
    IF probe.committed[u] < 0 THEN -1 ELSE t - probe.committed[u]

\* C9 (state part): get_limit_state(U), called e seconds after the last
\* touch(U), returns (true, 180 - e) while e < 180 and (false, 0) from
\* e = 180 on, and (false, 0) for a user never touched; a touch at 0 gives
\* (true, 120) at 60 and (false, 0) at 181
C9_CheckAfterCommit ==
    probe.op = "check" =>
        LET e == SinceCommit(probe.user, probe.at)
        IN  /\ (e >= 0 /\ e < 180) => (probe.limited /\ probe.retry_after = 180 - e)
            /\ (e < 0 \/ e >= 180) => (~probe.limited /\ probe.retry_after = 0)
            /\ (probe.committed[probe.user] = 0 /\ probe.at = 60) =>
                  (probe.limited /\ probe.retry_after = 120)
            /\ (probe.committed[probe.user] = 0 /\ probe.at = 181) =>
                  (~probe.limited /\ probe.retry_after = 0)

\* C9 (step part): in a step that is no touch of U, the retry_after that
\* get_limit_state(U) would return does not grow
C9_NoIncrease ==
    \A u \in Users :
        probe'.committed[u] = probe.committed[u] =>
            GetLimitState(redis', u, now')[2] <= GetLimitState(redis, u, now)[2]

\* C9: after commit(U), check(U) reports the remaining time-to-live, which
\* never grows without a further commit, and unblocks once it has elapsed
C9_TtlDecay == []C9_CheckAfterCommit /\ [][C9_NoIncrease]_vars

C9_Witness ==
    /\ probe.op = "check"
    /\ probe.committed[probe.user] = 0
    /\ probe.at = 181
    /\ ~probe.limited

C9_WitnessBlocked ==
    /\ probe.op = "check"
    /\ probe.committed[probe.user] = 0
    /\ probe.at = 60
    /\ probe.retry_after = 120

\* C10: a touch sets the remaining time-to-live of the marker to exactly the
\* configured 180 seconds also when an unexpired marker exists, the remaining
\* time-to-live never exceeds 180, and a second touch at the same instant
\* changes nothing
C10_NoStacking ==
    /\ \A u \in Users : RedisTtl(redis, Key(u), now) <= 180
    /\ (probe.op = "touch" /\ probe.at = now) =>
          RedisTtl(redis, Key(probe.user), now) = 180
    /\ \A u \in Users :
          LET once == Touch(redis, u, now)
          IN  /\ Touch(once, u, now) = once
              /\ RedisTtl(once, Key(u), now) = 180
              /\ \A v \in Users \ {u} :
                    RedisTtl(once, Key(v), now) = RedisTtl(redis, Key(v), now)

\* a touch of a user whose marker had 60 seconds left
C10_Witness ==
    /\ probe.op = "touch"
    /\ probe.at = now
    /\ probe.limited
    /\ probe.retry_after = 60
    /\ RedisTtl(redis, Key(probe.user), now) = 180

\* C19 (step part): a call of get_limit_state(U) leaves the store and the
\* clock as they are; it returns (true, remaining time) exactly when the
\* marker of U exists with a remaining time greater than 0, and (false, 0)
\* otherwise
C19_CheckStep ==
    (probe' # probe /\ probe'.op = "check") =>
        LET k == <<"rate_limit:gpt35", "user", probe'.user>>
            marked == k \in DOMAIN redis /\ redis[k] - now > 0
        IN  /\ redis' = redis
            /\ now' = now
            /\ probe'.limited <=> marked
            /\ marked => probe'.retry_after = redis[k] - now
            /\ ~marked => probe'.retry_after = 0

\* C19: the check is free of side effects and reports the marker's state
C19_CheckPure == [][C19_CheckStep]_vars

\* a check found the marker with 120 seconds left and left it so
C19_Witness ==
    /\ probe.op = "check"
    /\ probe.at = now
    /\ probe.limited /\ probe.retry_after = 120
    /\ \E u \in Users :
          /\ u # probe.user
          /\ Key(u) \notin DOMAIN redis
    /\ redis[Key(probe.user)] = now + 120

----------------------------------------------------------------------------
(* Properties of the cooldown markers under resets (SpecCooldown) *)

\* a marker that is gone after a step has run out of time in that step, and
\* a step of a reset handler leaves every marker as it was
C21_MarkerStep ==
    /\ \A k \in DOMAIN redis :
          k \notin DOMAIN redis' => (now' > now /\ redis[k] <= now')
    /\ (\E r \in Resets : reset'[r] # reset[r]) => redis' = redis

\* C21: a cooldown marker disappears only by the expiry of its time-to-live;
\* no operation deletes it, and a conversation reset leaves every marker,
\* that of the resetting user included, unchanged
C21_OnlyExpiry == [][C21_MarkerStep]_vars

\* the user committed, reset the conversation (one Exchange removed), and a
\* check 90 seconds after the commit still reports 90 seconds to wait
C21_Witness ==
    /\ probe.op = "check" /\ probe.at = now
    /\ probe.limited /\ probe.retry_after = 90
    /\ \E r \in Resets :
          /\ reset[r].pc = "done"
          /\ reset[r].user = probe.user
          /\ reset[r].count = 1
    /\ RowsOf(messages, probe.user) = <<>>
    /\ messages # <<>>

----------------------------------------------------------------------------
(* Properties of the ChatGPTService (SpecGen) *)

Generated == probe.op = "generate"

Entries == IF Generated THEN 1..Len(probe.history) ELSE {}

\* the attempt with this outcome failed: the call raised, or it returned a
\* message without content
AttemptFailed(outcome) == outcome.raised \/ outcome.content = Null

\* the error the failed attempt leaves in last_error
AttemptError(outcome) == IF outcome.raised THEN outcome.error ELSE "AttributeError"

\* in entry e the primary model was called and failed, then the fallback
\* model was called and succeeded
PrimaryFailedFallbackOk(e) ==
    /\ e.model # "gpt-4o-mini"
    /\ e.done
    /\ e.calls = <<e.model, "gpt-4o-mini">>
    /\ AttemptFailed(e.outs[1])
    /\ ~AttemptFailed(e.outs[2])

\* C11: when the primary call fails and the fallback call succeeds the result
\* of the turn is the fallback's output, and every later turn of the process
\* (one whose call began after this one had ended) calls the fallback model
\* first
C11_FallbackPreferred ==
    \A i \in Entries :
        LET e == probe.history[i]
        IN  PrimaryFailedFallbackOk(e) =>
                /\ e.ok
                /\ e.text = Strip(e.outs[2].content)
                /\ \A j \in Entries :
                      (i \in probe.history[j].after /\ probe.history[j].calls # <<>>)
                      => probe.history[j].calls[1] = "gpt-4o-mini"

\* C12: a service whose primary and fallback model are the same makes
\* exactly one external call, whether the call succeeds or fails
C12_OneCall ==
    \A i \in Entries :
        LET e == probe.history[i]
        IN  e.model = "gpt-4o-mini" =>
                /\ Len(e.calls) <= 1
                /\ e.done <=> Len(e.calls) = 1
                /\ e.done =>
                      /\ e.calls[1] = "gpt-4o-mini"
                      /\ e.ok <=> ~AttemptFailed(e.outs[1])

\* two calls were in flight together; one failed and one succeeded, with one
\* external call each
C12_Witness ==
    /\ Generated
    /\ config.openai_model = ""
    /\ Len(probe.history) = 2
    /\ probe.history[2].after = {}
    /\ probe.history[1].done /\ probe.history[2].done
    /\ ~probe.history[1].ok /\ Len(probe.history[1].calls) = 1
    /\ probe.history[2].ok /\ Len(probe.history[2].calls) = 1

\* C13: a call attempts each distinct model at most once (at most two calls),
\* every call before the last one failed, the call fails exactly when every
\* model's attempt failed, the failure carries the error of the last attempt
\* and no text, and a success returns the stripped content of the last call
\* (no space, no-break space or next-line character at either end); a call
\* that has not ended has a model left to attempt
C13_AttemptsAndFailure ==
    \A i \in Entries :
        LET e == probe.history[i]
            n == Len(e.calls)
            models == {e.model, "gpt-4o-mini"}
            called == {e.calls[k] : k \in 1..n}
        IN  /\ n \in 0..2
            /\ n <= Cardinality(models)
            /\ Len(e.outs) = n
            /\ called \subseteq models
            /\ \A k, l \in 1..n : k # l => e.calls[k] # e.calls[l]
            /\ \A k \in 1..(n - 1) : AttemptFailed(e.outs[k])
            /\ ~e.done =>
                  /\ n < Cardinality(models)
                  /\ \A k \in 1..n : AttemptFailed(e.outs[k])
            /\ e.done =>
                  /\ n >= 1
                  /\ e.ok <=> ~AttemptFailed(e.outs[n])
                  /\ ~e.ok <=> (called = models /\ \A k \in 1..n : AttemptFailed(e.outs[k]))
            /\ (e.done /\ ~e.ok) =>
                  /\ n = Cardinality(models)
                  /\ e.error = <<"ChatGPTError", AttemptError(e.outs[n])>>
                  /\ e.text = Null
            /\ (e.done /\ e.ok) =>
                  /\ e.text # Null
                  /\ e.text = Strip(e.outs[n].content)
                  /\ e.text # <<>> =>
                        {e.text[1], e.text[Len(e.text)]} \cap {32, 133, 160} = {}

\* both attempts of a call failed, each with an error of its own, while
\* another call of generate_response began and ended between the two
C13_Witness ==
    /\ Generated
    /\ \E i, j \in Entries :
          LET e == probe.history[i]
              f == probe.history[j]
          IN  /\ i < j /\ f.after = {} /\ f.done /\ f.ok /\ Len(f.calls) = 1
              /\ e.done /\ ~e.ok
              /\ Len(e.calls) = 2
              /\ e.outs[1].raised
              /\ e.outs[2].content = Null /\ ~e.outs[2].raised
              /\ e.error = <<"ChatGPTError", "AttributeError">>

\* C18: when the models differ the primary model is attempted first, and
\* the fallback model only after the primary attempt failed
C18_PrimaryFirst ==
    \A i \in Entries :
        LET e == probe.history[i]
        IN  (e.model # "gpt-4o-mini" /\ e.calls # <<>>) =>
                /\ e.calls[1] = e.model
                /\ (Len(e.calls) = 2 =>
                        /\ e.calls[2] = "gpt-4o-mini"
                        /\ AttemptFailed(e.outs[1]))

----------------------------------------------------------------------------
(* Properties of the conversation reset (SpecStore) *)

RowSet(rows) == {rows[i] : i \in 1..Len(rows)}

IdSet(ids) == {ids[i] : i \in 1..Len(ids)}

\* the handler of reset r takes a step from pc to pc2
ResetMoves(r, pc, pc2) == reset[r].pc = pc /\ reset'[r].pc = pc2

\* C14 (state part): the count a reset reports is the number of Exchanges it
\* found, it is known from the commit on, and no two found Exchanges are the
\* same
C14_Count ==
    \A r \in Resets :
        /\ reset[r].pc \in {"answer", "callback_answer", "done"} => reset[r].count >= 0
        /\ reset[r].count >= 0 => reset[r].count = Len(reset[r].selected)
        /\ Cardinality(IdSet(reset[r].selected)) = Len(reset[r].selected)

\* C14 (step part): the select finds exactly the Exchanges of U that exist;
\* the commit removes exactly the found Exchanges that are still there, all of
\* them of U, as many as the count when none was removed meanwhile, and keeps
\* every other Exchange in place; no other step of a reset changes the table
C14_Steps ==
    \A r \in Resets :
        LET U == reset[r].user
            ids == IdSet(reset[r].selected)
            gone == RowSet(messages) \ RowSet(messages')
        IN  /\ ResetMoves(r, "select", "commit") =>
                  /\ IdSet(reset'[r].selected) =
                        {m.id : m \in {x \in RowSet(messages) : x.user_id = U}}
                  /\ Len(reset'[r].selected) =
                        Cardinality({x \in RowSet(messages) : x.user_id = U})
                  /\ messages' = messages
            /\ ResetMoves(r, "commit", "answer") =>
                  /\ gone = {m \in RowSet(messages) : m.id \in ids}
                  /\ \A m \in gone : m.user_id = U
                  /\ \A m \in RowSet(messages) : m.user_id # U => m \in RowSet(messages')
                  /\ messages' = SelectSeq(messages, LAMBDA m : m \notin gone)
                  /\ reset'[r].count = Len(reset[r].selected)
                  /\ Cardinality(gone) <= reset'[r].count
                  /\ (\A id \in ids : \E m \in RowSet(messages) : m.id = id)
                        => Cardinality(gone) = reset'[r].count
            /\ (reset'[r].pc # reset[r].pc /\ ~ResetMoves(r, "commit", "answer"))
                  => messages' = messages

\* C14: a reset for U removes exactly the Exchanges that existed for U,
\* reports their number, and removes no Exchange of another user
\* (violated: on SQLite the id of a deleted Exchange is given again, and a
\* reset that selected the old Exchange deletes the new one, of any user)
C14_ResetExact == []C14_Count /\ [][C14_Steps]_vars

----------------------------------------------------------------------------
(* Properties of the Exchanges under messages and resets *)

\* an Exchange in the store is never changed; it leaves the store only in
\* the commit of a reset of its owner
C20_KeepStep ==
    \A m \in RowSet(messages) :
        \/ m \in RowSet(messages')
        \/ /\ \A x \in RowSet(messages') : x.id # m.id
           /\ \E r \in Resets :
                 /\ ResetMoves(r, "commit", "answer")
                 /\ reset[r].user = m.user_id

\* C20: after its creation no operation changes an Exchange, and it leaves
\* the store only by a reset of its owner (violated: the reset of another
\* user removes it when its id had belonged to an Exchange of that user)
C20_ExchangeLifecycle == [][C20_KeepStep]_vars

\* the step in which the reset of a user completes (its deletes are
\* committed) leaves no Exchange of that user in the store
C23_EmptyStep ==
    \A r \in Resets :
        ResetMoves(r, "commit", "answer") =>
            \A m \in RowSet(messages') : m.user_id # reset[r].user

\* C23: at the moment a reset for U completes the store holds no Exchange of
\* U, whatever turns of U are in flight
C23_EmptyAfterReset == [][C23_EmptyStep]_vars

\* the users whose handler (of a message or of a reset) takes the step
Actors ==
    {turn'[t].user : t \in {x \in Turns : turn'[x] # turn[x]}}
    \cup {reset'[r].user : r \in {x \in Resets : reset'[x] # reset[x]}}
    \cup (IF probe' # probe /\ probe'.op = "insert" THEN {probe'.user} ELSE {})

\* the marker of user V, as the store holds it: <<present, expiry time>>
MarkerOf(store, V) ==
    LET k == <<"rate_limit:gpt35", "user", V>>
    IN  IF k \in DOMAIN store THEN <<TRUE, store[k]>> ELSE <<FALSE, 0>>

\* a step of a handler of user U leaves the Exchanges and the marker of
\* every other user V as they were; a gate check of V that the store answers
\* reports blocked exactly when V's own marker has time left
C22_IsolationStep ==
    /\ Actors # {} =>
          \A V \in Users \ Actors :
              /\ SelectSeq(messages', LAMBDA m : m.user_id = V)
                    = SelectSeq(messages, LAMBDA m : m.user_id = V)
              /\ MarkerOf(redis', V) = MarkerOf(redis, V)
    /\ \A t \in Turns :
          (/\ turn[t].pc = "gate" /\ turn'[t].pc # "gate"
           /\ turn'[t].log[Len(turn'[t].log)][2] \in {"blocked", "free"})
          => LET mk == MarkerOf(redis, turn[t].user)
             IN  (turn'[t].pc = "limit_notice") <=> (mk[1] /\ mk[2] > now)

\* C22: turns and resets of one user never touch the state of another user:
\* any step of a handler of U leaves V's Exchanges and V's marker unchanged
\* (violated: a reset of U removes an Exchange of V that was given the id of
\* an Exchange of U the reset had selected)
C22_Isolation == [][C22_IsolationStep]_vars

====
